---- MODULE Spec2Model ----
(***************************************************************************)
(* A model of the asset reference resolution and indexing engine of        *)
(* asset-manage: the resolution cache (src/src/store/imageCache.ts), the   *)
(* first-success race of a position query                                  *)
(* (src/src/utils/resourcePathResolver.ts) and the asset index             *)
(* (src/unnamed/part_012).                                                 *)
(***************************************************************************)
EXTENDS Integers, Sequences, FiniteSets, TLC

VARIABLES
    cache,      \* ImageCache.cache: the Map, as the sequence of its entries in insertion order
    maxSize,    \* ImageCache.maxSize
    maxAge,     \* ImageCache.maxAge (ms)
    now,        \* the value Date.now() returns (ms)
    ret,        \* what the last cache operation returned, and the keys it removed
    qpc,        \* parseAndResolveResource: "idle", "racing" (awaiting firstSuccessful) or "done"
    cands,      \* candidates: the types of the candidates of the query, in push order
    mat,        \* the promise of each candidate's materialization: "pending", "ok" or "failed"
    jobs,       \* the queue of promise reactions that are ready to run, oldest first
    outer,      \* the promise firstSuccessful returns
    rejectedCount,  \* firstSuccessful's rejectedCount
    result,     \* what parseAndResolveResource returned
    order,      \* the candidates in the order their materializations settled
    fsAssets,   \* the file system: the resource files that exist
    assets,     \* AssetIndex.assets
    references, \* AssetIndex.references: resource path -> its locations
    scanOp,     \* the call of AssetIndex.scan in flight: its position and its locals
    updOp,      \* the call of AssetIndex.updateFileReferences in flight
    laterOp,    \* a call of AssetIndex.scan started while scanOp is in flight
    fired,      \* the change notifications fired since the index was last at rest: what their listener read
    arg,        \* the call of a synchronous function: its arguments and what it reads
    out,        \* what that call returned
    disk,       \* the file system: the local files that exist and are readable
    mop         \* the call of materializeCandidateWithCache in flight

cacheVars == <<cache, maxSize, maxAge, now, ret>>

raceVars == <<qpc, cands, mat, jobs, outer, rejectedCount, result, order>>

indexVars == <<fsAssets, assets, references, scanOp, updOp, laterOp, fired>>

callVars == <<arg, out>>

matVars == <<disk, mop>>

vars == <<cache, maxSize, maxAge, now, ret,
          qpc, cands, mat, jobs, outer, rejectedCount, result, order,
          fsAssets, assets, references, scanOp, updOp, laterOp, fired,
          arg, out, disk, mop>>

\* what an operation of the cache, of a position query and of the index leaves alone
notCache == <<raceVars, indexVars, callVars, matVars>>
notRace == <<cacheVars, indexVars, callVars, matVars>>
\* (a call of the index leaves the locals of an overlapping call alone)
notIndex == <<cacheVars, raceVars, laterOp, callVars, matVars>>
notRescan == <<cacheVars, raceVars, callVars, matVars>>
notCall == <<cacheVars, raceVars, indexVars, matVars>>
\* (a materialization uses the cache and the clock)
notMat == <<maxSize, maxAge, now, ret, raceVars, indexVars, callVars>>

----------------------------------------------------------------------------
(* Bounds of the model *)

\* cache keys are 1..MaxKeys
MaxKeys == 11
\* a position query has at most MaxMatches matches (the base64 at the position,
\* the matches of the line, the fallback)
MaxMatches == 2
\* a text source file holds at most MaxRefs resource references
MaxRefs == 1
\* at most MaxFiles of the paths a resolution tests exist
MaxFiles == 2
\* loadAliasMap discovers at most MaxConfigs configuration files
MaxConfigs == 2
\* the columns of a line are 0..MaxCol
MaxCol == 2
\* a server redirects among MaxHops + 1 URLs
MaxHops == 2
\* one download sends at most MaxRequests requests
MaxRequests == 4

(* Program constants *)

DEFAULT_MAX_SIZE == 1000
DEFAULT_MAX_AGE == 1800000
MIN_MAX_SIZE == 10
MIN_MAX_AGE == 60000

\* an optional number of a config object: <<>> is undefined, <<n>> is n
None == <<>>
Some(n) == <<n>>

Keys == 1..MaxKeys
\* the keys get, has and delete are issued on
ProbeKeys == {1}
\* the keys set is issued on at any instant
WriteKeys == {1, 2}
\* the values Date.now() takes: the start, 1 ms later, and 1 ms past the
\* smallest maxAge
Instants == {0, 1, MIN_MAX_AGE + 1}
\* the instants at which set is issued on the other keys
FillInstants == {0}

\* the values setConfig is called with
Configs ==
    { [maxSize |-> None, maxAge |-> None],
      [maxSize |-> Some(0), maxAge |-> None],
      [maxSize |-> None, maxAge |-> Some(0)],
      [maxSize |-> Some(DEFAULT_MAX_SIZE), maxAge |-> Some(DEFAULT_MAX_AGE)] }

Max(a, b) == IF a >= b THEN a ELSE b

----------------------------------------------------------------------------
(* The Map<string, CachedImageInfo> as a sequence of entries *)

MapKeys(m) == { m[i].key : i \in 1..Len(m) }

MapHas(m, k) == k \in MapKeys(m)

MapIndex(m, k) == CHOOSE i \in 1..Len(m) : m[i].key = k

MapGet(m, k) == m[MapIndex(m, k)]

\* Map.delete: the entry leaves, the others keep their order
MapDelete(m, k) == SelectSeq(m, LAMBDA e : e.key # k)

\* Map.set: an existing key keeps its place, a new key goes last
MapSet(m, k, e) ==
    IF MapHas(m, k)
    THEN [m EXCEPT ![MapIndex(m, k)] = e]
    ELSE Append(m, e)

\* now - item.createdAt > this.maxAge
ExpiredInclusive(item, t, age) == t - item.createdAt >= age

Expired(item, t, age) == t - item.createdAt > age

\* item.lastAccessed = Date.now()
TouchSliding(item, t) == [item EXCEPT !.lastAccessed = t, !.createdAt = t]

Touch(item, t) == [item EXCEPT !.lastAccessed = t]

\* Array.prototype.sort with (a, b) => b.lastAccessed - a.lastAccessed: a stable
\* sort, most recently accessed first
RECURSIVE InsertAsc(_, _)
InsertAsc(sorted, e) ==
    IF sorted = <<>> THEN <<e>>
    ELSE IF Head(sorted).lastAccessed <= e.lastAccessed
         THEN <<Head(sorted)>> \o InsertAsc(Tail(sorted), e)
         ELSE <<e>> \o sorted

RECURSIVE InsertDesc(_, _)
InsertDesc(sorted, e) ==
    IF sorted = <<>> THEN <<e>>
    ELSE IF Head(sorted).lastAccessed >= e.lastAccessed
         THEN <<Head(sorted)>> \o InsertDesc(Tail(sorted), e)
         ELSE <<e>> \o sorted

RECURSIVE SortAscFrom(_, _)
SortAscFrom(done, rest) ==
    IF rest = <<>> THEN done
    ELSE SortAscFrom(InsertAsc(done, Head(rest)), Tail(rest))

RECURSIVE SortDescFrom(_, _)
SortDescFrom(done, rest) ==
    IF rest = <<>> THEN done
    ELSE SortDescFrom(InsertDesc(done, Head(rest)), Tail(rest))

SortOldestFirst(entries) == SortAscFrom(<<>>, entries)

SortByLastAccessed(entries) == SortDescFrom(<<>>, entries)

\* ImageCache.cleanup, as a function of the map, the clock and the configuration
CleanupNoTrim(m, t, size, age) == SelectSeq(m, LAMBDA e : ~Expired(e, t, age))

Cleanup(m, t, size, age) ==
    LET validEntries == SelectSeq(m, LAMBDA e : ~Expired(e, t, age))
    IN  IF Len(validEntries) > size
        THEN SubSeq(SortByLastAccessed(validEntries), 1, size)
        ELSE validEntries

Entry(k, t) == [key |-> k, createdAt |-> t, lastAccessed |-> t]

\* Math.max(10, config.maxSize) and Math.max(60 * 1000, config.maxAge)
NoFloor(floor, n) == n

Floor(floor, n) == Max(floor, n)

\* the keys an operation took out of the map
Removed(before, after) == MapKeys(before) \ MapKeys(after)

Void == [op |-> "none"]

----------------------------------------------------------------------------
(* The operations of ImageCache *)

CacheState ==
    /\ cache = <<>>
    /\ maxSize = DEFAULT_MAX_SIZE
    /\ maxAge = DEFAULT_MAX_AGE
    /\ now = 0
    /\ ret = Void

\* Date.now() moves on between two operations
Tick ==
    /\ \E t \in Instants : t > now /\ now' = t
    /\ ret' = Void
    /\ UNCHANGED <<cache, maxSize, maxAge, notCache>>

Get(k) ==
    /\ IF ~MapHas(cache, k)
       THEN /\ ret' = [op |-> "get", key |-> k, hit |-> FALSE, removed |-> {}]
            /\ UNCHANGED cache
       ELSE IF Expired(MapGet(cache, k), now, maxAge)
       THEN /\ cache' = MapDelete(cache, k)
            /\ ret' = [op |-> "get", key |-> k, hit |-> FALSE, removed |-> {k},
                       dropped |-> MapGet(cache, k)]
       ELSE /\ cache' = MapSet(cache, k, Touch(MapGet(cache, k), now))
            /\ ret' = [op |-> "get", key |-> k, hit |-> TRUE, removed |-> {},
                       item |-> Touch(MapGet(cache, k), now)]
    /\ UNCHANGED <<maxSize, maxAge, now, notCache>>

Set(k) ==
    /\ LET cleaned == IF Len(cache) >= maxSize
                      THEN Cleanup(cache, now, maxSize, maxAge)
                      ELSE cache
       IN  cache' = MapSet(cleaned, k, Entry(k, now))
    /\ ret' = [op |-> "set", key |-> k, removed |-> Removed(cache, cache')]
    /\ UNCHANGED <<maxSize, maxAge, now, notCache>>

Has(k) ==
    /\ IF ~MapHas(cache, k)
       THEN /\ ret' = [op |-> "has", key |-> k, hit |-> FALSE, removed |-> {}]
            /\ UNCHANGED cache
       ELSE IF Expired(MapGet(cache, k), now, maxAge)
       THEN /\ cache' = MapDelete(cache, k)
            /\ ret' = [op |-> "has", key |-> k, hit |-> FALSE, removed |-> {k}]
       ELSE /\ ret' = [op |-> "has", key |-> k, hit |-> TRUE, removed |-> {}]
            /\ UNCHANGED cache
    /\ UNCHANGED <<maxSize, maxAge, now, notCache>>

Delete(k) ==
    /\ cache' = MapDelete(cache, k)
    /\ ret' = [op |-> "delete", key |-> k, hit |-> MapHas(cache, k)]
    /\ UNCHANGED <<maxSize, maxAge, now, notCache>>

Clear ==
    /\ cache' = <<>>
    /\ ret' = Void
    /\ UNCHANGED <<maxSize, maxAge, now, notCache>>

Size == Len(cache)

SetConfig(config) ==
    /\ maxSize' = IF config.maxSize # None
                  THEN Floor(MIN_MAX_SIZE, config.maxSize[1]) ELSE maxSize
    /\ maxAge' = IF config.maxAge # None
                 THEN Floor(MIN_MAX_AGE, config.maxAge[1]) ELSE maxAge
    /\ cache' = Cleanup(cache, now, maxSize', maxAge')
    /\ ret' = [op |-> "setConfig", removed |-> Removed(cache, cache')]
    /\ UNCHANGED <<now, notCache>>

\* a key outside WriteKeys that is not in the cache; these keys are interchangeable,
\* so the smallest stands for all of them
FreshKeys ==
    LET absent == (Keys \ WriteKeys) \ MapKeys(cache)
    IN  IF absent = {} \/ now \notin FillInstants THEN {}
        ELSE {CHOOSE k \in absent : \A j \in absent : k <= j}

CacheNext ==
    \/ Tick
    \/ \E k \in ProbeKeys : Get(k)
    \/ \E k \in WriteKeys \cup FreshKeys : Set(k)
    \/ \E k \in ProbeKeys : Has(k)
    \/ \E k \in ProbeKeys : Delete(k)
    \/ Clear
    \/ \E config \in Configs : SetConfig(config)

RaceState ==
    /\ qpc = "idle"
    /\ cands = <<>>
    /\ mat = <<>>
    /\ jobs = <<>>
    /\ outer = [state |-> "pending"]
    /\ rejectedCount = 0
    /\ result = [type |-> "none"]
    /\ order = <<>>

\* the text source files and the resource paths of the workspace
TextFiles == {"A", "B"}
Resources == {"r1", "r2"}
\* the resource files that are created and deleted while the index runs; the
\* others exist throughout
Volatile == {"r1"}

Idle == [pc |-> "idle"]

NoCall == [fn |-> "none"]

EmptyMap == [r \in {} |-> <<>>]

IndexState ==
    /\ fsAssets \in { Resources \ gone : gone \in SUBSET Volatile }
    /\ assets = {}
    /\ references = EmptyMap
    /\ scanOp = Idle
    /\ updOp = Idle
    /\ laterOp = Idle
    /\ fired = <<>>

CallState ==
    /\ arg = NoCall
    /\ out = NoCall

\* the path of the file candidate
CandidateFile == "f"

MatState ==
    /\ disk = {CandidateFile}
    /\ mop = Idle

CacheInit == CacheState /\ RaceState /\ IndexState /\ MatState /\ CallState

SpecCache == CacheInit /\ [][CacheNext]_vars

----------------------------------------------------------------------------
(* Claims about the resolution cache *)

Unexpired(m, t, age) == SelectSeq(m, LAMBDA e : t - e.createdAt <= age)

\* C1: after any sequence of set/get/has/delete/clear/setConfig calls, size()
\* never exceeds the configured maxSize.
C1_SizeNeverExceedsMaxSize == Size <= maxSize

\* C2: get(key) is a hit, returning the stored entry, exactly when the key is
\* present and now - createdAt <= maxAge; a present key with
\* now - createdAt > maxAge is a miss and get removes its entry.
C2_GetHitIffFresh ==
    [][(ret'.op = "get" /\ Get(ret'.key)) =>
        LET k == ret'.key
        IN  /\ ret'.hit <=> (MapHas(cache, k) /\ now - MapGet(cache, k).createdAt <= maxAge)
            /\ ret'.hit =>
                /\ MapHas(cache', k)
                /\ ret'.item = MapGet(cache', k)
                /\ ret'.item.createdAt = MapGet(cache, k).createdAt
            /\ (MapHas(cache, k) /\ now - MapGet(cache, k).createdAt > maxAge)
                => ~MapHas(cache', k)
            /\ \A j \in MapKeys(cache) \ {k} :
                MapHas(cache', j) /\ MapGet(cache', j) = MapGet(cache, j)]_vars

\* a get that hits exactly at the age limit
C2_Witness ==
    /\ ret.op = "get"
    /\ ret.hit
    /\ now - ret.item.createdAt = maxAge

\* C3: expiry is absolute: get and has never change createdAt (a get hit sets
\* lastAccessed alone), only set(key) gives a key a new createdAt, and a get
\* issued later than createdAt + maxAge misses however often the entry was read.
C3_AbsoluteExpiry ==
    [][/\ cache' # cache =>
            \A i \in 1..Len(cache) : \A j \in 1..Len(cache') :
                (cache'[j].key = cache[i].key
                    /\ ~(ret'.op = "set" /\ ret'.key = cache[i].key))
                => cache'[j].createdAt = cache[i].createdAt
       /\ (ret'.op = "get" /\ Get(ret'.key)) =>
            LET k == ret'.key
            IN  /\ ret'.hit => MapGet(cache', k).lastAccessed = now
                /\ (MapHas(cache, k) /\ now > MapGet(cache, k).createdAt + maxAge)
                    => (~ret'.hit /\ ~MapHas(cache', k))]_vars

\* a get misses on an entry that was read after it was set
C3_Witness ==
    /\ ret.op = "get"
    /\ ~ret.hit
    /\ ret.removed # {}
    /\ ret.dropped.lastAccessed > ret.dropped.createdAt

\* C4: set on a cache at capacity drops every expired entry; it drops an
\* unexpired entry only when more than maxSize entries are unexpired, and never
\* while it keeps an unexpired entry with an older lastAccessed; a set below
\* capacity removes nothing.
C4_SetEvictsLeastRecentlyAccessed ==
    [][(ret'.op = "set" /\ Set(ret'.key)) =>
        LET k == ret'.key
            live == MapKeys(Unexpired(cache, now, maxAge))
            gone == Removed(cache, cache')
        IN  /\ Len(cache) >= maxSize =>
                \A j \in MapKeys(cache) \ live : j = k \/ j \in gone
            /\ Len(cache) < maxSize => gone = {}
            /\ Cardinality(live) <= maxSize => gone \cap live = {}
            /\ \A e \in gone \cap live : \A f \in live \ gone :
                    MapGet(cache, f).lastAccessed >= MapGet(cache, e).lastAccessed
            /\ MapHas(cache', k) /\ MapGet(cache', k) = Entry(k, now)]_vars

\* a set has evicted an unexpired entry and kept one accessed later than the start
C4_Witness ==
    /\ ret.op = "set"
    /\ ret.removed # {}
    /\ now < MIN_MAX_AGE
    /\ \E f \in MapKeys(cache) \ {ret.key} : MapGet(cache, f).lastAccessed > 0

----------------------------------------------------------------------------
(* A position query: parseAndResolveResource and firstSuccessful *)

ResolvedTypes == {"base64", "file", "network", "not_found"}

RECURSIVE SeqsUpTo(_, _)
SeqsUpTo(S, n) ==
    IF n = 0 THEN {<<>>}
    ELSE LET shorter == SeqsUpTo(S, n - 1)
         IN  shorter \cup { Append(q, x) : q \in shorter, x \in S }

\* what the mappers made of the matches at the position, in the order the
\* query looks at them
MappedLists == SeqsUpTo(ResolvedTypes, MaxMatches)

\* if (mapped && mapped.type !== "not_found") candidates.push(mapped)
KeepAll(mapped) == mapped

Candidates(mapped) == SelectSeq(mapped, LAMBDA t : t # "not_found")

\* materializeCandidate: how the materialization of a candidate can end
Outcomes(type) == IF type = "not_found" THEN {"failed"} ELSE {"ok", "failed"}

NotFound == [type |-> "not_found"]

Pending == [state |-> "pending"]

\* resolve(value) and reject(error) of the promise firstSuccessful returns: a
\* promise settles once
ResolveLast(promise, i) == [state |-> "resolved", cand |-> i]

Resolve(promise, i) ==
    IF promise.state = "pending" THEN [state |-> "resolved", cand |-> i] ELSE promise

Reject(promise) ==
    IF promise.state = "pending" THEN [state |-> "rejected"] ELSE promise

\* rejectedCount === total
AnyFailed(count, total) == count >= 1

AllFailed(count, total) == count = total

\* the continuation of `await firstSuccessful(...)` becomes ready when the promise settles
Awaiting(before, after) ==
    IF before.state = "pending" /\ after.state # "pending"
    THEN <<[kind |-> "await"]>> ELSE <<>>

\* the catch block of parseAndResolveResource
Rethrow == [type |-> "error"]

AllCandidatesFailed == NotFound

\* parseAndResolveResource up to the await of the race: with no candidate it
\* returns not_found, otherwise every materialization is started
StartQuery(mapped) ==
    /\ qpc \in {"idle", "done"}
    /\ jobs = <<>>
    /\ \A i \in 1..Len(mat) : mat[i] # "pending"
    /\ cands' = Candidates(mapped)
    /\ mat' = [i \in 1..Len(cands') |-> "pending"]
    /\ jobs' = <<>>
    /\ outer' = Pending
    /\ rejectedCount' = 0
    /\ order' = <<>>
    /\ IF Len(cands') = 0
       THEN qpc' = "done" /\ result' = NotFound
       ELSE qpc' = "racing" /\ result' = [type |-> "none"]
    /\ UNCHANGED notRace

\* the materialization of candidate i ends: its promise settles and the reaction
\* p.then(resolve) becomes ready
Settle(i, outcome) ==
    /\ i \in 1..Len(mat)
    /\ mat[i] = "pending"
    /\ outcome \in Outcomes(cands[i])
    /\ mat' = [mat EXCEPT ![i] = outcome]
    /\ order' = Append(order, i)
    /\ jobs' = Append(jobs, [kind |-> "then", cand |-> i])
    /\ UNCHANGED <<qpc, cands, outer, rejectedCount, result, notRace>>

\* p.then(resolve) of a fulfilled candidate: resolve(value)
ThenFulfilled ==
    /\ jobs # <<>>
    /\ Head(jobs).kind = "then"
    /\ mat[Head(jobs).cand] = "ok"
    /\ outer' = Resolve(outer, Head(jobs).cand)
    /\ jobs' = Tail(jobs) \o Awaiting(outer, outer')
    /\ UNCHANGED <<qpc, cands, mat, rejectedCount, result, order, notRace>>

\* p.then(resolve) of a rejected candidate: the rejection passes to .catch
ThenRejected ==
    /\ jobs # <<>>
    /\ Head(jobs).kind = "then"
    /\ mat[Head(jobs).cand] = "failed"
    /\ jobs' = Append(Tail(jobs), [kind |-> "catch", cand |-> Head(jobs).cand])
    /\ UNCHANGED <<qpc, cands, mat, outer, rejectedCount, result, order, notRace>>

\* .catch(() => { rejectedCount++; if (rejectedCount === total) reject(...) })
CatchRejected ==
    /\ jobs # <<>>
    /\ Head(jobs).kind = "catch"
    /\ rejectedCount' = rejectedCount + 1
    /\ outer' = IF AllFailed(rejectedCount', Len(cands)) THEN Reject(outer) ELSE outer
    /\ jobs' = Tail(jobs) \o Awaiting(outer, outer')
    /\ UNCHANGED <<qpc, cands, mat, result, order, notRace>>

\* the await of parseAndResolveResource resumes: return winner, or the catch block
Return ==
    /\ jobs # <<>>
    /\ Head(jobs).kind = "await"
    /\ qpc = "racing"
    /\ result' = IF outer.state = "resolved"
                 THEN [type |-> cands[outer.cand], cand |-> outer.cand]
                 ELSE AllCandidatesFailed
    /\ qpc' = "done"
    /\ jobs' = Tail(jobs)
    /\ UNCHANGED <<cands, mat, outer, rejectedCount, order, notRace>>

RaceInit == CacheState /\ RaceState /\ IndexState /\ MatState /\ CallState

RaceNext ==
    \/ \E mapped \in MappedLists : StartQuery(mapped)
    \/ \E i \in 1..MaxMatches, outcome \in {"ok", "failed"} : Settle(i, outcome)
    \/ ThenFulfilled
    \/ ThenRejected
    \/ CatchRejected
    \/ Return

SpecRace == RaceInit /\ [][RaceNext]_vars

----------------------------------------------------------------------------
(* Claims about the race of a position query *)

\* the candidates whose materialization has succeeded, in the order they did
Succeeded == SelectSeq(order, LAMBDA i : mat[i] = "ok")

\* C6: the query returns the result of the candidate whose materialization
\* succeeded first; a candidate that failed earlier does not decide the
\* outcome, and nothing that completes after the return changes the result
\* (only the next query does).
C6_FirstSuccessWins ==
    [][/\ (qpc' = "done" /\ Succeeded' # <<>>) =>
            result' = [type |-> cands'[Head(Succeeded')], cand |-> Head(Succeeded')]
       /\ (qpc = "done" /\ ~(\E mapped \in MappedLists : StartQuery(mapped)))
            => result' = result]_vars

\* both candidates succeeded, the second of the list before the first, and the
\* query has returned the second
C6_Witness ==
    /\ qpc = "done"
    /\ jobs = <<>>
    /\ order = <<2, 1>>
    /\ mat[1] = "ok"
    /\ mat[2] = "ok"
    /\ result.type # "not_found"
    /\ result.cand = 2

\* C7: a position query never ends in an error: it returns not_found when it
\* has no candidate and when every candidate's materialization has failed, and
\* otherwise a candidate's result.
C7_NeverAnError ==
    /\ result.type # "error"
    /\ (qpc = "done" /\ Len(cands) = 0) => result = NotFound
    /\ (qpc = "done" /\ Len(cands) > 0 /\ \A i \in 1..Len(mat) : mat[i] = "failed")
        => result = NotFound
    /\ (jobs = <<>> /\ Len(cands) > 0 /\ \A i \in 1..Len(mat) : mat[i] = "failed")
        => qpc = "done"
    /\ (qpc = "done" /\ result = NotFound)
        => \A i \in 1..Len(mat) : mat[i] = "failed"

\* every one of several candidates failed and the query returned not_found
C7_Witness ==
    /\ qpc = "done"
    /\ Len(cands) >= 2
    /\ \A i \in 1..Len(mat) : mat[i] = "failed"
    /\ rejectedCount = Len(cands)
    /\ result = NotFound

----------------------------------------------------------------------------
(* The asset index: AssetIndex.scan, updateFileReferences and the readers *)

\* the reference strings collectResourcePaths finds in a text: each names a
\* resource path, or is a network URL
RawPaths == Resources \cup {"http"}

RECURSIVE RefSeqs(_)
RefSeqs(n) ==
    IF n = 0 THEN {<<>>}
    ELSE RefSeqs(n - 1) \cup { Append(q, x) : q \in RefSeqs(n - 1), x \in RawPaths }

\* the texts of the model: a text is the sequence of its reference strings, in
\* the order collectResourcePaths returns them; the place of a reference in
\* this sequence stands for its offset (no two results share an offset)
Contents == RefSeqs(MaxRefs)

NoPath == "undefined"

\* resolveWorkspacePath: undefined for a network URL, else the absolute path
ResolveWorkspacePath(file, raw) == IF raw = "http" THEN NoPath ELSE raw

\* collectResourcePaths: the matches of a text, each with its offset
CollectResourcePaths(content) ==
    [i \in 1..Len(content) |-> [path |-> content[i], index |-> i]]

\* new vscode.Location(fileUri, new vscode.Position(line, char))
Location(file, index) == [file |-> file, index |-> index]

\* Map.get(key) ?? [] followed by push and Map.set
Push(map, key, loc) ==
    IF key \in DOMAIN map
    THEN [map EXCEPT ![key] = Append(@, loc)]
    ELSE [k \in DOMAIN map \cup {key} |-> IF k = key THEN <<loc>> ELSE map[k]]

\* AssetIndex.removeReferencesFromFile
RemoveWholeEntries(refs, file) ==
    LET kept == { r \in DOMAIN refs : \A i \in 1..Len(refs[r]) : refs[r][i].file # file }
    IN  [r \in kept |-> refs[r]]

RemoveKeepEmpty(refs, file) ==
    [r \in DOMAIN refs |-> SelectSeq(refs[r], LAMBDA loc : loc.file # file)]

RemoveNothing(refs, file) == refs

RemoveReferencesFromFile(refs, file) ==
    LET filtered == [r \in DOMAIN refs |-> SelectSeq(refs[r], LAMBDA loc : loc.file # file)]
        kept == { r \in DOMAIN refs : Len(filtered[r]) # 0 }
    IN  [r \in kept |-> filtered[r]]

\* step 3 of updateFileReferences: merge the locations found into the map
Merge(refs, found) ==
    [r \in DOMAIN refs \cup DOMAIN found |->
        IF r \in DOMAIN refs /\ r \in DOMAIN found THEN refs[r] \o found[r]
        ELSE IF r \in DOMAIN found THEN found[r]
        ELSE refs[r]]

\* the loop of scan fills the local refMap: this.references is not touched
\* before line 150
PublishedWhileScanning(current, refMap) == refMap

ReferencesWhileScanning(current, refMap) == current

\* getReferences(uri)
GetReferences(r) == IF r \in DOMAIN references THEN references[r] ELSE <<>>

\* getUnused()
GetUnused == { a \in assets : a \notin DOMAIN references }

\* this._onDidChange.fire(): the statement follows the assignment of the
\* reverse map, so a listener that reads the index when notified reads the
\* map as it is after the operation
ReadsBeforeTheSwap(before, after) == before

ReadsWhenNotified(before, after) == after

Fire(sofar, by, before, after) ==
    Append(sofar, [by |-> by, references |-> ReadsWhenNotified(before, after)])

\* the notifications so far when updateFileReferences goes on: none when the
\* call has just started
FiredSoFar == IF updOp.pc = "stat" THEN fired ELSE <<>>

NoOpInFlight ==
    /\ scanOp.pc \in {"idle", "done"}
    /\ updOp.pc \in {"idle", "done"}

\* a resource file is created or deleted
ToggleAsset(r) ==
    /\ fsAssets' = IF r \in fsAssets THEN fsAssets \ {r} ELSE fsAssets \cup {r}
    /\ UNCHANGED <<fired, assets, references, scanOp, updOp, notIndex>>

\* scan up to its first await, fg(assetPatterns)
ScanStart ==
    /\ NoOpInFlight
    /\ scanOp' = [pc |-> "assets", before |-> references, unused |-> GetUnused]
    /\ updOp' = Idle
    /\ fired' = <<>>
    /\ UNCHANGED <<fsAssets, assets, references, notIndex>>

\* fg(assetPatterns) answers: this.assets is assigned, fg(textPatterns) awaited
ScanAssets ==
    /\ scanOp.pc = "assets"
    /\ assets' = fsAssets
    /\ scanOp' = [scanOp EXCEPT !.pc = "texts"]
    /\ UNCHANGED <<fired, fsAssets, references, updOp, notIndex>>

\* the rest of scan once the loop over texts is over: the swap of line 150
ScanFinish(op, texts, refMap) ==
    /\ references' = refMap
    /\ scanOp' = [pc |-> "done", refMap |-> refMap]
    /\ fired' = Fire(fired, "scan", references, references')

\* scan resumes at file number fi of texts: await fs.readFile, or the end
ScanNextFile(op, texts, fi, refMap) ==
    IF fi > Len(texts)
    THEN ScanFinish(op, texts, refMap)
    ELSE /\ scanOp' = [pc |-> "read", before |-> op.before, unused |-> op.unused, texts |-> texts,
                       fi |-> fi, refMap |-> refMap]
         /\ references' = ReferencesWhileScanning(references, refMap)
         /\ UNCHANGED fired

\* fg(textPatterns) answers with the text files, in some order
ScanTexts(texts) ==
    /\ scanOp.pc = "texts"
    /\ ScanNextFile(scanOp, texts, 1, EmptyMap)
    /\ UNCHANGED <<fsAssets, assets, updOp, notIndex>>

\* scan resumes at match number mi of the file: await fs.stat, or the next file
ScanNextMatch(op, matches, mi, refMap) ==
    LET unresolved(i) == ResolveWorkspacePath(op.texts[op.fi], matches[i].path) = NoPath
        RECURSIVE Skip(_)
        Skip(i) == IF i <= Len(matches) /\ unresolved(i) THEN Skip(i + 1) ELSE i
        next == Skip(mi)
    IN  IF next > Len(matches)
        THEN ScanNextFile(op, op.texts, op.fi + 1, refMap)
        ELSE /\ scanOp' = [pc |-> "stat", before |-> op.before, unused |-> op.unused, texts |-> op.texts,
                           fi |-> op.fi, refMap |-> refMap,
                           matches |-> matches, mi |-> next]
             /\ references' = ReferencesWhileScanning(references, refMap)
             /\ UNCHANGED fired

\* fs.readFile answers: the content the file has at that moment, or an error
\* and the file is skipped
ScanRead(readable, content) ==
    /\ scanOp.pc = "read"
    /\ IF readable
       THEN ScanNextMatch(scanOp, CollectResourcePaths(content), 1, scanOp.refMap)
       ELSE ScanNextFile(scanOp, scanOp.texts, scanOp.fi + 1, scanOp.refMap)
    /\ UNCHANGED <<fsAssets, assets, updOp, notIndex>>

\* fs.stat answers: a file with a resource extension is recorded under its path
ScanStat ==
    /\ scanOp.pc = "stat"
    /\ LET m == scanOp.matches[scanOp.mi]
           file == scanOp.texts[scanOp.fi]
           resolved == ResolveWorkspacePath(file, m.path)
           refMap == IF resolved \in fsAssets
                     THEN Push(scanOp.refMap, resolved, Location(file, m.index))
                     ELSE scanOp.refMap
       IN  ScanNextMatch(scanOp, scanOp.matches, scanOp.mi + 1, refMap)
    /\ UNCHANGED <<fsAssets, assets, updOp, notIndex>>

\* updateFileReferences resumes at match number mi: await fs.stat, or step 3
UpdNextMatch(op, mi, found, refs) ==
    LET unresolved(i) == ResolveWorkspacePath(op.file, op.matches[i].path) = NoPath
        RECURSIVE Skip(_)
        Skip(i) == IF i <= Len(op.matches) /\ unresolved(i) THEN Skip(i + 1) ELSE i
        next == Skip(mi)
    IN  IF next > Len(op.matches)
        THEN /\ references' = Merge(refs, found)
             /\ updOp' = [op EXCEPT !.pc = "done", !.found = found]
             /\ fired' = Fire(FiredSoFar, "update", refs, references')
        ELSE /\ references' = refs
             /\ updOp' = [op EXCEPT !.pc = "stat", !.mi = next, !.found = found]
             /\ fired' = FiredSoFar

\* updateFileReferences up to its first await: the file's references are removed
UpdStart(file, content) ==
    /\ NoOpInFlight
    /\ scanOp' = Idle
    /\ UpdNextMatch([pc |-> "stat", file |-> file, before |-> references,
                     matches |-> CollectResourcePaths(content), mi |-> 1,
                     found |-> EmptyMap],
                    1, EmptyMap, RemoveReferencesFromFile(references, file))
    /\ UNCHANGED <<fsAssets, assets, notIndex>>

\* fs.stat answers in updateFileReferences
UpdStat ==
    /\ updOp.pc = "stat"
    /\ LET m == updOp.matches[updOp.mi]
           resolved == ResolveWorkspacePath(updOp.file, m.path)
           found == IF resolved \in fsAssets
                    THEN Push(updOp.found, resolved, Location(updOp.file, m.index))
                    ELSE updOp.found
       IN  UpdNextMatch(updOp, updOp.mi + 1, found, references)
    /\ UNCHANGED <<fsAssets, assets, scanOp, notIndex>>

\* the orders in which fast-glob can list the text files
TextLists == { <<"A", "B">>, <<"B", "A">> }

IndexInit == CacheState /\ RaceState /\ IndexState /\ MatState /\ CallState

IndexNext ==
    \/ \E r \in Volatile : ToggleAsset(r)
    \/ ScanStart
    \/ ScanAssets
    \/ \E texts \in TextLists : ScanTexts(texts)
    \/ \E content \in Contents : ScanRead(TRUE, content)
    \/ ScanRead(FALSE, <<>>)
    \/ ScanStat
    \/ \E file \in TextFiles, content \in Contents : UpdStart(file, content)
    \/ UpdStat

SpecIndex == IndexInit /\ [][IndexNext]_vars

----------------------------------------------------------------------------
(* updateFileReferences called twice in succession: the second call has the
   arguments of the call that has just finished *)

\* updateFileReferences(F, content) up to its first await, F and content
\* being those of the finished call; first is what that call found
UpdAgain ==
    /\ updOp.pc = "done"
    /\ UpdNextMatch([pc |-> "stat", file |-> updOp.file, before |-> references,
                     matches |-> updOp.matches, mi |-> 1,
                     found |-> EmptyMap, first |-> updOp.found],
                    1, EmptyMap, RemoveReferencesFromFile(references, updOp.file))
    /\ UNCHANGED <<fsAssets, assets, scanOp, notIndex>>

TwiceNext == IndexNext \/ UpdAgain

SpecTwice == IndexInit /\ [][TwiceNext]_vars

----------------------------------------------------------------------------
(* Overlapping updates: a document is saved again while the
   updateFileReferences call of an earlier save is suspended at fs.stat *)

\* updateFileReferences when no other call is in flight
FirstStart(file, content) ==
    /\ updOp.pc \in {"idle", "done"}
    /\ laterOp.pc \in {"idle", "done"}
    /\ laterOp' = Idle
    /\ UpdNextMatch([pc |-> "stat", file |-> file, before |-> references,
                     matches |-> CollectResourcePaths(content), mi |-> 1,
                     found |-> EmptyMap],
                    1, EmptyMap, RemoveReferencesFromFile(references, file))
    /\ UNCHANGED <<fsAssets, assets, scanOp, notRescan>>

\* fs.stat answers the earlier call
FirstStat ==
    /\ updOp.pc = "stat"
    /\ LET m == updOp.matches[updOp.mi]
           resolved == ResolveWorkspacePath(updOp.file, m.path)
           found == IF resolved \in fsAssets
                    THEN Push(updOp.found, resolved, Location(updOp.file, m.index))
                    ELSE updOp.found
       IN  UpdNextMatch(updOp, updOp.mi + 1, found, references)
    /\ UNCHANGED <<fsAssets, assets, scanOp, laterOp, notRescan>>

\* the later call resumes at match number mi: await fs.stat, or step 3
LaterUpdNextMatch(op, mi, found, refs) ==
    LET unresolved(i) == ResolveWorkspacePath(op.file, op.matches[i].path) = NoPath
        RECURSIVE Skip(_)
        Skip(i) == IF i <= Len(op.matches) /\ unresolved(i) THEN Skip(i + 1) ELSE i
        next == Skip(mi)
    IN  IF next > Len(op.matches)
        THEN /\ references' = Merge(refs, found)
             /\ laterOp' = [op EXCEPT !.pc = "done", !.found = found]
             /\ fired' = Fire(fired, "update", refs, references')
        ELSE /\ references' = refs
             /\ laterOp' = [op EXCEPT !.pc = "stat", !.mi = next, !.found = found]
             /\ fired' = fired

\* updateFileReferences up to its first await, while the earlier call is
\* suspended: the file's references are removed
LaterUpdStart(file, content) ==
    /\ updOp.pc = "stat"
    /\ laterOp.pc = "idle"
    /\ LaterUpdNextMatch([pc |-> "stat", file |-> file, before |-> references,
                       matches |-> CollectResourcePaths(content), mi |-> 1,
                       found |-> EmptyMap],
                      1, EmptyMap, RemoveReferencesFromFile(references, file))
    /\ UNCHANGED <<fsAssets, assets, scanOp, updOp, notRescan>>

\* fs.stat answers the later call
LaterUpdStat ==
    /\ laterOp.pc = "stat"
    /\ LET m == laterOp.matches[laterOp.mi]
           resolved == ResolveWorkspacePath(laterOp.file, m.path)
           found == IF resolved \in fsAssets
                    THEN Push(laterOp.found, resolved, Location(laterOp.file, m.index))
                    ELSE laterOp.found
       IN  LaterUpdNextMatch(laterOp, laterOp.mi + 1, found, references)
    /\ UNCHANGED <<fsAssets, assets, scanOp, updOp, notRescan>>

\* a resource file is created or deleted while updates run
ToggleWhileUpdating(r) ==
    /\ fsAssets' = IF r \in fsAssets THEN fsAssets \ {r} ELSE fsAssets \cup {r}
    /\ UNCHANGED <<fired, assets, references, scanOp, updOp, laterOp, notRescan>>

OverlapNext ==
    \/ \E r \in Volatile : ToggleWhileUpdating(r)
    \/ \E file \in TextFiles, content \in Contents : FirstStart(file, content)
    \/ FirstStat
    \/ \E file \in TextFiles, content \in Contents : LaterUpdStart(file, content)
    \/ LaterUpdStat

SpecOverlap == IndexInit /\ [][OverlapNext]_vars

----------------------------------------------------------------------------
(* Overlapping scans: the refresh command runs rescan again while the scan of
   an earlier refresh is suspended at an await *)

\* a refresh when no scan is in flight
RescanStart ==
    /\ scanOp.pc \in {"idle", "done"}
    /\ laterOp.pc \in {"idle", "done"}
    /\ updOp.pc = "idle"
    /\ scanOp' = [pc |-> "assets", before |-> references, unused |-> GetUnused]
    /\ laterOp' = Idle
    /\ fired' = <<>>
    /\ UNCHANGED <<fsAssets, assets, references, updOp, notRescan>>

\* a refresh while the scan of the refresh before it is in flight: scan up to
\* its first await
LaterStart ==
    /\ scanOp.pc \in {"assets", "texts", "read", "stat"}
    /\ laterOp.pc = "idle"
    /\ laterOp' = [pc |-> "assets"]
    /\ UNCHANGED <<fired, fsAssets, assets, references, scanOp, updOp, notRescan>>

\* fg(assetPatterns) answers the later scan: this.assets is assigned
LaterAssets ==
    /\ laterOp.pc = "assets"
    /\ assets' = fsAssets
    /\ laterOp' = [pc |-> "texts", assets |-> fsAssets]
    /\ UNCHANGED <<fired, fsAssets, references, scanOp, updOp, notRescan>>

\* the later scan resumes at file number fi of texts, or swaps the map in
LaterNextFile(op, texts, fi, refMap) ==
    IF fi > Len(texts)
    THEN /\ references' = refMap
         /\ laterOp' = [pc |-> "done", assets |-> op.assets, refMap |-> refMap]
         /\ fired' = Fire(fired, "scan", references, references')
    ELSE /\ laterOp' = [pc |-> "read", assets |-> op.assets, texts |-> texts,
                        fi |-> fi, refMap |-> refMap]
         /\ references' = ReferencesWhileScanning(references, refMap)
         /\ UNCHANGED fired

LaterTexts(texts) ==
    /\ laterOp.pc = "texts"
    /\ LaterNextFile(laterOp, texts, 1, EmptyMap)
    /\ UNCHANGED <<fsAssets, assets, scanOp, updOp, notRescan>>

\* the later scan resumes at match number mi of the file, or at the next file
LaterNextMatch(op, matches, mi, refMap) ==
    LET unresolved(i) == ResolveWorkspacePath(op.texts[op.fi], matches[i].path) = NoPath
        RECURSIVE Skip(_)
        Skip(i) == IF i <= Len(matches) /\ unresolved(i) THEN Skip(i + 1) ELSE i
        next == Skip(mi)
    IN  IF next > Len(matches)
        THEN LaterNextFile(op, op.texts, op.fi + 1, refMap)
        ELSE /\ laterOp' = [pc |-> "stat", assets |-> op.assets, texts |-> op.texts,
                            fi |-> op.fi, refMap |-> refMap,
                            matches |-> matches, mi |-> next]
             /\ references' = ReferencesWhileScanning(references, refMap)
             /\ UNCHANGED fired

LaterRead(readable, content) ==
    /\ laterOp.pc = "read"
    /\ IF readable
       THEN LaterNextMatch(laterOp, CollectResourcePaths(content), 1, laterOp.refMap)
       ELSE LaterNextFile(laterOp, laterOp.texts, laterOp.fi + 1, laterOp.refMap)
    /\ UNCHANGED <<fsAssets, assets, scanOp, updOp, notRescan>>

LaterStat ==
    /\ laterOp.pc = "stat"
    /\ LET m == laterOp.matches[laterOp.mi]
           file == laterOp.texts[laterOp.fi]
           resolved == ResolveWorkspacePath(file, m.path)
           refMap == IF resolved \in fsAssets
                     THEN Push(laterOp.refMap, resolved, Location(file, m.index))
                     ELSE laterOp.refMap
       IN  LaterNextMatch(laterOp, laterOp.matches, laterOp.mi + 1, refMap)
    /\ UNCHANGED <<fsAssets, assets, scanOp, updOp, notRescan>>

RescanInit == CacheState /\ RaceState /\ IndexState /\ MatState /\ CallState

RescanNext ==
    \/ \E r \in Volatile : ToggleAsset(r)
    \/ RescanStart
    \/ ScanAssets
    \/ \E texts \in TextLists : ScanTexts(texts)
    \/ \E content \in Contents : ScanRead(TRUE, content)
    \/ ScanRead(FALSE, <<>>)
    \/ ScanStat
    \/ LaterStart
    \/ LaterAssets
    \/ \E texts \in TextLists : LaterTexts(texts)
    \/ \E content \in Contents : LaterRead(TRUE, content)
    \/ LaterRead(FALSE, <<>>)
    \/ LaterStat

SpecRescan == RescanInit /\ [][RescanNext]_vars

----------------------------------------------------------------------------
(* The mappers: resolveViaMappers and resolveResourcePath.  A path is the
   sequence of its segments below the file-system root *)

\* the workspace folder, the directory of the document, the working directory
\* of the extension host and the directory an alias maps to
WorkspaceRoot == <<"ws">>
DocDir == <<"ws", "src">>
Cwd == <<"opt", "host">>
AliasDir == <<"ws", "lib">>

\* a raw reference: a data URL, a URL, a protocol-relative URL, or a path
\* that is absolute or relative
DataRaw == [scheme |-> "data", abs |-> FALSE, segs |-> <<>>]
HttpRaw == [scheme |-> "http", abs |-> FALSE, segs |-> <<>>]
SlashesRaw == [scheme |-> "//", abs |-> FALSE, segs |-> <<>>]
PlainRaw == [scheme |-> "", abs |-> FALSE, segs |-> <<"img", "a.png">>]
AliasedRaw == [scheme |-> "", abs |-> FALSE, segs |-> <<"@", "a.png">>]
AbsoluteRaw == [scheme |-> "", abs |-> TRUE, segs |-> <<"img", "a.png">>]

Raws == {DataRaw, HttpRaw, SlashesRaw, PlainRaw, AliasedRaw, AbsoluteRaw}

\* getAliasMapForFile(document): no alias, or "@/" mapped to AliasDir
NoAliases == [a \in {} |-> <<>>]
AliasTables == { NoAliases, [a \in {"@"} |-> AliasDir] }

\* the setting assetLens.sourceFolders
SourceFolderSettings == { <<>>, <<"res">> }

\* const fallbackFolders = ["static", "public"]
FallbackFolders == <<"static", "public">>

\* path.join(dir, p): the segments of p below dir, whether p is absolute or not
Join(dir, p) == dir \o p.segs

\* the file a path handed to accessSync names: a relative path is taken from
\* the working directory of the process
AsIs(p) == IF p.abs THEN p.segs ELSE Cwd \o p.segs

\* const pathsToTest = [pathName] followed by the path of every alias whose
\* prefix the path starts with (paths with forward slashes)
PathsToTest(raw, aliases) ==
    <<raw>> \o
    (IF ~raw.abs /\ raw.segs # <<>> /\ Head(raw.segs) \in DOMAIN aliases
     THEN <<[scheme |-> "", abs |-> TRUE,
             segs |-> aliases[Head(raw.segs)] \o Tail(raw.segs)]>>
     ELSE <<>>)

\* for (const testPath of pathsToTest) for (const folder of folders)
RECURSIVE InFolders(_, _)
InFolders(testPath, folders) ==
    IF folders = <<>> THEN <<>>
    ELSE <<Join(WorkspaceRoot \o <<Head(folders)>>, testPath)>>
         \o InFolders(testPath, Tail(folders))

RECURSIVE SourceFolderTests(_, _)
SourceFolderTests(tests, folders) ==
    IF tests = <<>> THEN <<>>
    ELSE InFolders(Head(tests), folders) \o SourceFolderTests(Tail(tests), folders)

Folders(setting) == IF Len(setting) # 0 THEN setting ELSE FallbackFolders

\* path.resolve(workspaceRoot, "." + cleanedRaw) when cleanedRaw starts with "/"
LeadingSlash(raw) == IF raw.abs THEN <<Join(WorkspaceRoot, raw)>> ELSE <<>>

\* the files a list of paths names, as they are and joined to the workspace root
AllAsIs(q) == [i \in 1..Len(q) |-> AsIs(q[i])]

AllFromRoot(q) == [i \in 1..Len(q) |-> Join(WorkspaceRoot, q[i])]

File(path) == [type |-> "file", path |-> path]

\* the first of the files tested that exists, or not_found
RECURSIVE FirstExisting(_, _)
FirstExisting(tests, fs) ==
    IF tests = <<>> THEN NotFound
    ELSE IF Head(tests) \in fs THEN File(Head(tests))
    ELSE FirstExisting(Tail(tests), fs)

\* resolveViaMappers: the files it tests, in the order it tests them
ViaMappersTests(raw, aliases, setting) ==
    (IF raw.abs THEN <<AsIs(raw)>> ELSE <<>>)
    \o <<Join(DocDir, raw)>>
    \o AllAsIs(PathsToTest(raw, aliases))
    \o SourceFolderTests(PathsToTest(raw, aliases), Folders(setting))
    \o LeadingSlash(raw)

ResolveViaMappersOf(call) ==
    IF call.raw.scheme = "data" THEN [type |-> "base64"]
    ELSE IF call.raw.scheme \in {"http", "//"} THEN [type |-> "network"]
    ELSE FirstExisting(ViaMappersTests(call.raw, call.aliases, call.setting), call.fs)

\* resolveResourcePath: undefined for a URL, the absolute path alone for an
\* absolute path, else the files it tests in the order it tests them
ResourcePathTests(raw, aliases, setting) ==
    IF raw.abs THEN <<AsIs(raw)>>
    ELSE <<Join(DocDir, raw)>>
         \o AllFromRoot(PathsToTest(raw, aliases))
         \o SourceFolderTests(PathsToTest(raw, aliases), Folders(setting))
         \o LeadingSlash(raw)

ResolveResourcePathOf(call) ==
    IF call.raw.scheme # "" THEN NotFound
    ELSE FirstExisting(ResourcePathTests(call.raw, call.aliases, call.setting), call.fs)

\* resolveWorkspacePath of the full scan: undefined for a URL or a data URL;
\* the alias target, untested, for a path that starts with an alias; an
\* absolute path as it is (a protocol-relative URL is an absolute path that
\* no file has); else the path below the directory of the declaring file
ResolveWorkspacePathOf(call) ==
    IF call.raw.scheme \in {"http", "data"} THEN None
    ELSE IF call.raw.scheme = "//" THEN Some(<<"//">> \o call.raw.segs)
    ELSE IF ~call.raw.abs /\ call.raw.segs # <<>> /\ Head(call.raw.segs) \in DOMAIN call.aliases
    THEN Some(call.aliases[Head(call.raw.segs)] \o Tail(call.raw.segs))
    ELSE IF call.raw.abs THEN Some(AsIs(call.raw))
    ELSE Some(Join(DocDir, call.raw))

\* the scan records a reference to the resolved path when fs.stat finds a
\* file there
ScanRecords(call) ==
    LET resolved == ResolveWorkspacePathOf(call)
    IN  IF resolved # None /\ resolved[1] \in call.fs THEN resolved ELSE None

Range(q) == { q[i] : i \in 1..Len(q) }

\* the files the resolution of a raw reference may look for
Tested(raw, aliases, setting) ==
    Range(ViaMappersTests(raw, aliases, setting))
    \cup Range(ResourcePathTests(raw, aliases, setting))
    \cup {Join(WorkspaceRoot, raw)}

MapperCalls ==
    { [fn |-> "resolve", raw |-> raw, aliases |-> aliases, setting |-> setting, fs |-> fs] :
        raw \in Raws, aliases \in AliasTables, setting \in SourceFolderSettings,
        fs \in { f \in SUBSET UNION { Tested(r, a, g) : r \in Raws, a \in AliasTables,
                                                       g \in SourceFolderSettings } :
                   Cardinality(f) <= MaxFiles } }

ResolveViaMappers ==
    /\ arg.fn = "resolve"
    /\ out = NoCall
    /\ out' = [fn |-> "resolveViaMappers", result |-> ResolveViaMappersOf(arg)]
    /\ UNCHANGED <<arg, notCall>>

ResolveResourcePath ==
    /\ arg.fn = "resolve"
    /\ out = NoCall
    /\ out' = [fn |-> "resolveResourcePath", result |-> ResolveResourcePathOf(arg)]
    /\ UNCHANGED <<arg, notCall>>

MappersInit ==
    /\ CacheState /\ RaceState /\ IndexState /\ MatState
    /\ arg \in MapperCalls
    /\ out = NoCall

MappersNext == ResolveViaMappers \/ ResolveResourcePath

SpecMappers == MappersInit /\ [][MappersNext]_vars

----------------------------------------------------------------------------
(* The alias resolver: getAliasMapForFile over the loaded configuration
   files.  A directory path is the sequence of its characters *)

\* the directories of the workspace: /w, /w/a, /w/a/s, /w/a2 and /w/a2/s
DirW == <<"/", "w">>
DirA == <<"/", "w", "/", "a">>
DirAS == <<"/", "w", "/", "a", "/", "s">>
DirA2 == <<"/", "w", "/", "a", "2">>
DirA2S == <<"/", "w", "/", "a", "2", "/", "s">>

\* in the order scanDir visits them
DirsInScanOrder == <<DirW, DirA, DirAS, DirA2, DirA2S>>

\* String.prototype.startsWith
StartsWith(str, prefix) ==
    /\ Len(prefix) <= Len(str)
    /\ SubSeq(str, 1, Len(prefix)) = prefix

\* a loaded configuration file: its directory and its alias table, which maps
\* "@/" into the directory of the configuration
ConfigFile(dir) == [configDir |-> dir, aliases |-> [a \in {"@"} |-> dir]]

\* Array.prototype.sort with (a, b) => b.configDir.length - a.configDir.length
\* (a stable sort): the configurations by decreasing length of directory
RECURSIVE InsertByLength(_, _)
InsertByLength(sorted, c) ==
    IF sorted = <<>> THEN <<c>>
    ELSE IF Len(Head(sorted).configDir) >= Len(c.configDir)
         THEN <<Head(sorted)>> \o InsertByLength(Tail(sorted), c)
         ELSE <<c>> \o sorted

RECURSIVE SortByLength(_, _)
SortByLength(done, rest) ==
    IF rest = <<>> THEN done
    ELSE SortByLength(InsertByLength(done, Head(rest)), Tail(rest))

\* the filter of findNearestConfigFile: fileDir.startsWith(config.configDir)
HasPrefixDir(fileDir, configDir) == StartsWith(fileDir, configDir)

\* findNearestConfigFile, with path.dirname(filePath) for its argument
FindNearestConfigFile(configFiles, fileDir) ==
    LET sortedConfigs ==
            SortByLength(<<>>, SelectSeq(configFiles,
                                         LAMBDA c : HasPrefixDir(fileDir, c.configDir)))
    IN  IF sortedConfigs = <<>> THEN <<>> ELSE <<sortedConfigs[1]>>

\* getAliasMapForFile: configFile?.aliases || {}
GetAliasMapForFileOf(call) ==
    LET configFile == FindNearestConfigFile(call.configFiles, call.fileDir)
    IN  IF configFile = <<>> THEN NoAliases ELSE configFile[1].aliases

\* the configuration files loaded: any of the directories, in scan order
LoadedConfigs ==
    { LET dirs == SelectSeq(DirsInScanOrder, LAMBDA d : d \in chosen)
      IN  [i \in 1..Len(dirs) |-> ConfigFile(dirs[i])] :
        chosen \in SUBSET Range(DirsInScanOrder) }

AliasCalls ==
    { [fn |-> "alias", configFiles |-> cfs, fileDir |-> dir] :
        cfs \in LoadedConfigs, dir \in Range(DirsInScanOrder) }

GetAliasMapForFile ==
    /\ arg.fn = "alias"
    /\ out = NoCall
    /\ out' = [fn |-> "getAliasMapForFile", result |-> GetAliasMapForFileOf(arg)]
    /\ UNCHANGED <<arg, notCall>>

\* the content of a configuration file: text JSON.parse rejects, or an
\* object whose compilerOptions.paths is absent, a number, or an object with
\* the key "@/*"; the value under the key is null, a string, or an array
Unparsable == [parsed |-> FALSE]
PathsAbsent == [parsed |-> TRUE, paths |-> [kind |-> "undefined"]]
PathsNumber == [parsed |-> TRUE, paths |-> [kind |-> "number"]]
PathsOf(targets) == [parsed |-> TRUE, paths |-> [kind |-> "object", targets |-> targets]]

TargetsNull == [kind |-> "null"]
TargetsString == [kind |-> "string", text |-> <<"l", "i", "b">>]
TargetsArray(items) == [kind |-> "array", items |-> items]

StringItem == [kind |-> "string", text |-> <<"l", "i", "b">>]
NumberItem == [kind |-> "number"]

ConfigContents ==
    { Unparsable, PathsAbsent, PathsNumber, PathsOf(TargetsNull), PathsOf(TargetsString),
      PathsOf(TargetsArray(<<>>)), PathsOf(TargetsArray(<<StringItem>>)),
      PathsOf(TargetsArray(<<NumberItem>>)) }

Returned(aliases) == [threw |-> FALSE, aliases |-> aliases]
TypeError == [threw |-> TRUE]

\* the callback of Object.entries(paths).forEach for the entry of "@/*"
AliasOfTargets(targets) ==
    IF targets.kind = "null" THEN Returned(NoAliases)
    ELSE IF targets.kind = "string"
         \* targets[0] is the first character of the string
         THEN IF Len(targets.text) = 0 THEN Returned(NoAliases)
              ELSE Returned([a \in {"@"} |-> <<targets.text[1]>>])
    ELSE IF Len(targets.items) = 0 THEN Returned(NoAliases)
    ELSE IF targets.items[1].kind = "string"
         THEN Returned([a \in {"@"} |-> targets.items[1].text])
    \* targets[0]?.replace is not a function
    ELSE TypeError

\* loadAliasesFromConfig
LoadAliasesFromConfig(content) ==
    IF ~content.parsed THEN Returned(NoAliases)
    ELSE IF content.paths.kind = "undefined" THEN Returned(NoAliases)
    ELSE IF content.paths.kind = "number" THEN Returned(NoAliases)
    ELSE AliasOfTargets(content.paths.targets)

\* the loop of loadAliasMap from configuration number i on, inside its try:
\* an exception ends the loop
RECURSIVE LoadFrom(_, _, _)
LoadFrom(contents, i, tables) ==
    IF i > Len(contents) THEN tables
    ELSE LET loaded == LoadAliasesFromConfig(contents[i])
         IN  IF loaded.threw THEN tables
             ELSE LoadFrom(contents, i + 1, [tables EXCEPT ![i] = loaded.aliases])

\* loadAliasMap: findAllConfigFiles gives every configuration the table {}
LoadAliasMapOf(call) ==
    [threw |-> FALSE,
     tables |-> LoadFrom(call.contents, 1, [i \in 1..Len(call.contents) |-> NoAliases])]

LoadCalls ==
    { [fn |-> "load", contents |-> contents] :
        contents \in SeqsUpTo(ConfigContents, MaxConfigs) }

LoadAliasMap ==
    /\ arg.fn = "load"
    /\ out = NoCall
    /\ out' = [fn |-> "loadAliasMap", result |-> LoadAliasMapOf(arg)]
    /\ UNCHANGED <<arg, notCall>>

AliasInit ==
    /\ CacheState /\ RaceState /\ IndexState /\ MatState
    /\ arg \in AliasCalls \cup LoadCalls
    /\ out = NoCall

AliasNext == GetAliasMapForFile \/ LoadAliasMap

SpecAlias == AliasInit /\ [][AliasNext]_vars

----------------------------------------------------------------------------
(* The parse stage of a position query: parseAndResolveResource from the
   matches of the line to the candidates it races *)

Columns == 0..MaxCol

\* a UrlMatch of the line's matchers, with the type resolveViaMappers gives
\* its url
UrlMatches ==
    { [start |-> a, end |-> b, mapped |-> t] :
        a \in Columns, b \in Columns, t \in {"file", "not_found"} }

LineMatches == { q \in SeqsUpTo(UrlMatches, MaxMatches) : \A i \in 1..Len(q) : q[i].start < q[i].end }

\* a position query: the column of the cursor, the matches of its line, the
\* column at which a comment starts on the line (None: no comment), whether
\* getFullBase64DataUrlAtPosition finds a data URL at the cursor, and the type
\* resolveViaMappers gives what fallbackQuotedOrUrl finds at the cursor
ParseCalls ==
    { [fn |-> "parse", character |-> c, matches |-> q, commentStart |-> k,
       base64 |-> b, fallback |-> f] :
        c \in Columns, q \in LineMatches, k \in {None} \cup { Some(x) : x \in Columns },
        b \in BOOLEAN, f \in {"none", "file", "not_found"} }

\* for (const m of matches): the candidates of the matches of the line
RECURSIVE MatchCandidates(_, _)
MatchCandidates(matches, i) ==
    IF i > Len(matches) THEN <<>>
    ELSE (IF matches[i].mapped # "not_found"
          THEN <<[type |-> matches[i].mapped, from |-> "match", index |-> i]>> ELSE <<>>)
         \o MatchCandidates(matches, i + 1)

\* the candidates of parseAndResolveResource, in the order it pushes them
ParseCandidates(call) ==
    (IF call.base64 THEN <<[type |-> "base64", from |-> "base64", index |-> 0]>> ELSE <<>>)
    \o MatchCandidates(call.matches, 1)
    \o (IF call.fallback \notin {"none", "not_found"}
        THEN <<[type |-> call.fallback, from |-> "fallback", index |-> 0]>> ELSE <<>>)

\* the matches whose url parseAndResolveResource hands to resolveViaMappers
ResolvedMatches(call) == 1..Len(call.matches)

\* parseAndResolveResource: not_found without candidates and when every
\* materialization fails (winner = 0), else the candidate that wins the race
ParseAndResolve(winner) ==
    /\ arg.fn = "parse"
    /\ out = NoCall
    /\ winner \in 0..Len(ParseCandidates(arg))
    /\ out' = [fn |-> "parseAndResolveResource",
               resolved |-> ResolvedMatches(arg),
               result |-> IF winner = 0 THEN [type |-> "not_found", from |-> "none", index |-> 0]
                          ELSE ParseCandidates(arg)[winner]]
    /\ UNCHANGED <<arg, notCall>>

ParseInit ==
    /\ CacheState /\ RaceState /\ IndexState /\ MatState
    /\ arg \in ParseCalls
    /\ out = NoCall

ParseNext == \E winner \in 0..(MaxMatches + 2) : ParseAndResolve(winner)

SpecParse == ParseInit /\ [][ParseNext]_vars

----------------------------------------------------------------------------
(* Materialization: materializeCandidateWithCache and materializeCandidate  *)
(* (src/src/utils/resourcePathResolver.ts) with the enrichment of           *)
(* getResourceInfo, estimateOptimization and getGitInfo                     *)

\* the URLs a server redirects among; 0 is candidate.raw
Urls == 0..MaxHops

\* cacheKey: candidate.uri.fsPath of the file candidate, candidate.raw of the
\* network candidate
FileKey == 1
UrlKey == 2

\* buildTempFilePath: the temp file of a base64 and of a network candidate
TmpData == "tmpData"
TmpNet == "tmpNet"

\* what a server answers a GET with: res.statusCode and res.headers.location
\* ("error" is the request's error event; a 3xx without location counts as 404)
Answers(u) ==
    { [status |-> s, location |-> u] : s \in {"200", "404", "error"} }
    \cup { [status |-> "302", location |-> v] : v \in Urls }

Servers ==
    { sv \in [Urls -> UNION { Answers(u) : u \in Urls }] :
        \A u \in Urls : sv[u] \in Answers(u) }

Offline == [u \in Urls |-> [status |-> "error", location |-> u]]

\* the candidates of a position query: a file candidate, a base64 candidate
\* (its dataUrl matches /^data:([^;]+);base64,(.+)$/ or not) and a network
\* candidate (uri is undefined: "none")
FileCandidate == [type |-> "file", uri |-> CandidateFile, valid |-> TRUE]
NetworkCandidate == [type |-> "network", uri |-> "none", valid |-> TRUE]

ResolvedCandidates ==
    { FileCandidate, NetworkCandidate }
    \cup { [type |-> "base64", uri |-> "none", valid |-> v] : v \in BOOLEAN }

CacheKey(c) ==
    IF c.type = "file" /\ c.uri # "none" THEN <<FileKey>>
    ELSE IF c.type = "network" THEN <<UrlKey>>
    ELSE <<>>

\* {...candidate}: the enrichment fields are undefined
Unenriched(c, uri) ==
    [type |-> c.type, uri |-> uri, resourceInfo |-> "undefined",
     optimizationEstimates |-> "undefined", gitInfo |-> "undefined"]

NoResult == Unenriched([type |-> "none"], "none")

NothingReturned == [info |-> "none", estimates |-> "none", git |-> "none"]

\* what the collaborators meet: the file is an image, image-size reads its
\* dimensions, sharp encodes it, and what simple-git does ("throws": the
\* simpleGit(...) constructor throws, which getGitInfo does not catch)
Enrichments ==
    [image : BOOLEAN, dims : BOOLEAN, sharp : BOOLEAN,
     git : {"info", "undefined", "throws"}]

\* getResourceInfo: exists: false when stat fails, else the info, with the
\* dimensions when image-size read them
GetResourceInfo(uri, d, e) ==
    IF uri \notin d THEN "missing"
    ELSE IF e.image /\ e.dims THEN "full"
    ELSE "basic"

\* estimateOptimization: undefined unless the file is an existing image that
\* sharp encodes
EstimateOptimization(info, e) ==
    IF info = "missing" \/ ~e.image THEN "undefined"
    ELSE IF e.sharp THEN "estimates"
    ELSE "undefined"

\* getGitInfo: skipped for base64; a temp file is in no workspace folder
GetGitInfo(res, e) ==
    IF res.type = "base64" THEN "undefined"
    ELSE IF res.uri = TmpNet THEN "undefined"
    ELSE e.git

\* what the three collaborators returned to materializeCandidate
Returned3(res, d, e) ==
    LET info == GetResourceInfo(res.uri, d, e)
    IN  [info |-> info,
         estimates |-> EstimateOptimization(info, e),
         git |-> GetGitInfo(res, e)]

\* lines 898-911: one try around the three awaits, the three assignments
\* after them; a throw leaves the three fields undefined
EnrichTogether(res, r) ==
    IF res.uri = "none" THEN res
    ELSE IF "throws" \in {r.info, r.estimates, r.git} THEN res
    ELSE [res EXCEPT !.resourceInfo = r.info,
                     !.optimizationEstimates = r.estimates,
                     !.gitInfo = r.git]

\* imageCache.get(cacheKey): the entry when the key is present and not expired
CacheHit(k) == MapHas(cache, k) /\ ~Expired(MapGet(cache, k), now, maxAge)

CacheAfterGet(k) ==
    IF ~MapHas(cache, k) THEN cache
    ELSE IF Expired(MapGet(cache, k), now, maxAge) THEN MapDelete(cache, k)
    ELSE MapSet(cache, k, Touch(MapGet(cache, k), now))

\* imageCache.set(cacheKey, {resourceInfo, optimizationEstimates, gitInfo})
CacheAfterSet(k, res) ==
    LET cleaned == IF Len(cache) >= maxSize
                   THEN Cleanup(cache, now, maxSize, maxAge)
                   ELSE cache
    IN  MapSet(cleaned, k,
               [key |-> k, createdAt |-> now, lastAccessed |-> now,
                resourceInfo |-> res.resourceInfo,
                optimizationEstimates |-> res.optimizationEstimates,
                gitInfo |-> res.gitInfo])

Op(pc, c, sv, probe, body, ok, cached, res, r) ==
    [pc |-> pc, candidate |-> c, server |-> sv, probe |-> probe, body |-> body,
     ok |-> ok, cached |-> cached, result |-> res, returned |-> r]

Rejected(op) == [op EXCEPT !.pc = "done", !.ok = FALSE]

Last(q) == q[Len(q)]

\* materializeCandidateWithCache, up to its first await: base64 goes straight
\* to materializeCandidate; a cache hit returns the candidate with the cached
\* fields; a miss goes on to materializeCandidate
MaterializeCandidateWithCache(c, sv) ==
    /\ mop = Idle
    /\ c.type = "network" \/ sv = Offline
    /\ LET key == CacheKey(c)
           fresh == Op("materialize", c, sv, <<>>, <<>>, FALSE, FALSE,
                       NoResult, NothingReturned)
       IN  IF c.type = "base64" \/ key = <<>>
           THEN /\ mop' = fresh
                /\ UNCHANGED cache
           ELSE /\ cache' = CacheAfterGet(key[1])
                /\ IF CacheHit(key[1])
                   THEN LET cached == MapGet(cache, key[1])
                        IN  mop' = Op("done", c, sv, <<>>, <<>>, TRUE, TRUE,
                                      [Unenriched(c, c.uri) EXCEPT
                                          !.resourceInfo = cached.resourceInfo,
                                          !.optimizationEstimates =
                                              cached.optimizationEstimates,
                                          !.gitInfo = cached.gitInfo],
                                      NothingReturned)
                   ELSE mop' = fresh
    /\ UNCHANGED <<disk, notMat>>

\* materializeCandidate, file: await fs.access(candidate.uri.fsPath)
Access ==
    /\ mop.pc = "materialize"
    /\ mop.candidate.type = "file"
    /\ IF mop.candidate.uri \in disk
       THEN mop' = [mop EXCEPT !.pc = "enrich", !.ok = TRUE,
                               !.result = Unenriched(mop.candidate, mop.candidate.uri)]
       ELSE mop' = Rejected(mop)
    /\ UNCHANGED <<cache, disk, notMat>>

\* materializeCandidate, base64: the dataUrl is matched and written to a temp
\* file (fs.writeFile succeeds or rejects)
WriteTemp(written) ==
    /\ mop.pc = "materialize"
    /\ mop.candidate.type = "base64"
    /\ IF mop.candidate.valid /\ written
       THEN /\ disk' = disk \cup {TmpData}
            /\ mop' = [mop EXCEPT !.pc = "enrich", !.ok = TRUE,
                                  !.result = Unenriched(mop.candidate, TmpData)]
       ELSE /\ mop' = Rejected(mop)
            /\ UNCHANGED disk
    /\ UNCHANGED <<cache, notMat>>

\* materializeCandidate, network: proto.get(raw, ...) of the content-type probe
ProbeRequest ==
    /\ mop.pc = "materialize"
    /\ mop.candidate.type = "network"
    /\ mop' = [mop EXCEPT !.pc = "probe", !.probe = <<0>>]
    /\ UNCHANGED <<cache, disk, notMat>>

\* the answer to a request of the probe: the first answer, when it is a
\* redirect, sends req2; any other answer, and the answer to req2, resolves
\* the content type and the download's proto.get(raw, handle) follows. An
\* error of req has the listener that resolves undefined; an error of req2
\* has no listener: the error event is thrown as an uncaught exception and
\* the promise of the probe is never settled ("unhandled", where the call
\* stays).
ProbeResponse ==
    /\ mop.pc = "probe"
    /\ LET res == mop.server[Last(mop.probe)]
       IN  IF Len(mop.probe) = 1 /\ res.status = "302"
           THEN mop' = [mop EXCEPT !.probe = Append(@, res.location)]
           ELSE IF Len(mop.probe) = 2 /\ res.status = "error"
           THEN mop' = [mop EXCEPT !.pc = "unhandled"]
           ELSE mop' = [mop EXCEPT !.pc = "download", !.body = <<0>>]
    /\ UNCHANGED <<cache, disk, notMat>>

\* handle(res): a redirect is requested with handle again; a 200 is piped to
\* the temp file; anything else rejects
DownloadResponse ==
    /\ mop.pc = "download"
    /\ LET res == mop.server[Last(mop.body)]
       IN  IF res.status = "302"
           THEN /\ Len(mop.body) < MaxRequests
                /\ mop' = [mop EXCEPT !.body = Append(@, res.location)]
                /\ UNCHANGED disk
           ELSE IF res.status = "200"
           THEN /\ disk' = disk \cup {TmpNet}
                /\ mop' = [mop EXCEPT !.pc = "enrich", !.ok = TRUE,
                                      !.result = Unenriched(mop.candidate, TmpNet)]
           ELSE /\ mop' = Rejected(mop)
                /\ UNCHANGED disk
    /\ UNCHANGED <<cache, notMat>>

\* lines 897-913, then lines 749-757 of materializeCandidateWithCache: the
\* result is cached when it has a cache key and a resourceInfo
Enrich(e) ==
    /\ mop.pc = "enrich"
    /\ LET r == Returned3(mop.result, disk, e)
           res == EnrichTogether(mop.result, r)
           key == CacheKey(mop.candidate)
       IN  /\ mop' = [mop EXCEPT !.pc = "done", !.result = res, !.returned = r]
           /\ cache' = IF key # <<>> /\ res.resourceInfo # "undefined"
                       THEN CacheAfterSet(key[1], res)
                       ELSE cache
    /\ UNCHANGED <<disk, notMat>>

\* the promise of materializeCandidateWithCache is settled
Resume ==
    /\ mop # Idle
    /\ mop.pc = "done"
    /\ mop' = Idle
    /\ UNCHANGED <<cache, disk, notMat>>

\* between two materializations the candidate's file is deleted
Unlink ==
    /\ mop = Idle
    /\ CandidateFile \in disk
    /\ disk' = disk \ {CandidateFile}
    /\ UNCHANGED <<cache, mop, notMat>>

MaterializeInit ==
    /\ CacheState /\ RaceState /\ IndexState /\ CallState
    /\ disk \in {{}, {CandidateFile}}
    /\ mop = Idle

MaterializeNext ==
    \/ \E c \in ResolvedCandidates, sv \in Servers : MaterializeCandidateWithCache(c, sv)
    \/ Access
    \/ \E written \in BOOLEAN : WriteTemp(written)
    \/ ProbeRequest
    \/ ProbeResponse
    \/ DownloadResponse
    \/ \E e \in Enrichments : Enrich(e)
    \/ Resume
    \/ Unlink

SpecMaterialize == MaterializeInit /\ [][MaterializeNext]_vars

----------------------------------------------------------------------------
(* collectResourcePaths (src/unnamed/part_012): the seven regular           *)
(* expressions applied in turn, with the de-duplication by offset           *)

\* the regular expressions in the order collectResourcePaths applies them
Grammars ==
    <<"URL_RE", "IMPORT_RE", "HTML_ATTR_RE", "VUE_BINDING_RE",
      "REACT_JSX_BINDING_RE", "SRCSET_RE", "GENERIC_QUOTED_RE">>

\* the expressions whose first group is the attribute name and whose second
\* group is the path
BindingGrammars == {"VUE_BINDING_RE", "REACT_JSX_BINDING_RE"}

GrammarRank(re) == CHOOSE i \in 1..Len(Grammars) : Grammars[i] = re

\* where the groups start in the text a match of an expression covers
\* (full.indexOf): a quote precedes the path of a quoted string, a keyword or
\* an attribute name and a quote precede the path of the other expressions,
\* the attribute name starts the match of a binding
GroupOffset(re, group) ==
    IF re \in BindingGrammars THEN (IF group = 1 THEN 0 ELSE 2)
    ELSE IF re = "GENERIC_QUOTED_RE" THEN (IF group = 1 THEN 1 ELSE 2)
    ELSE (IF group = 1 THEN 2 ELSE 3)

\* a RegExpExecArray: the expression, m.index and the groups m[1] and m[2]
ExecArrays ==
    { [re |-> Grammars[g], index |-> i,
       m1 |-> IF Grammars[g] \in BindingGrammars THEN "src" ELSE "a.png",
       m2 |-> IF Grammars[g] \in BindingGrammars THEN "a.png" ELSE "png"] :
        g \in 1..Len(Grammars), i \in Columns }

\* the matches of a text, in the order the loops of apply meet them: by
\* expression, and for one expression from left to right without overlap
InApplyOrder(q) ==
    \A i \in 1..(Len(q) - 1) :
        \/ GrammarRank(q[i].re) < GrammarRank(q[i + 1].re)
        \/ q[i].re = q[i + 1].re /\ q[i].index < q[i + 1].index

\* a text: its matches and the offset from which it is a comment (isInComment)
CollectCalls ==
    { [fn |-> "collect", matches |-> q, commentStart |-> k] :
        q \in { s \in SeqsUpTo(ExecArrays, MaxMatches) : InApplyOrder(s) },
        k \in {None} \cup { Some(x) : x \in Columns } }

\* isInComment(content, idx)
IsInComment(text, idx) == text.commentStart # None /\ idx >= text.commentStart[1]

\* const idx = m.index + full.indexOf(captured), captured being m[1]
Idx(m) == m.index + GroupOffset(m.re, 1)

\* if (seenIndexes.has(idx)) continue
SeenNever(seen, idx) == FALSE

Seen(seen, idx) == idx \in seen

\* the loop bodies of apply over the matches of the text, from match i on:
\* results and seenIndexes
RECURSIVE ApplyFrom(_, _, _, _)
ApplyFrom(text, i, results, seenIndexes) ==
    IF i > Len(text.matches) THEN results
    ELSE LET m == text.matches[i]
             idx == Idx(m)
         IN  IF Seen(seenIndexes, idx)
             THEN ApplyFrom(text, i + 1, results, seenIndexes)
             ELSE IF IsInComment(text, idx)
             THEN ApplyFrom(text, i + 1, results, seenIndexes \cup {idx})
             ELSE ApplyFrom(text, i + 1,
                            Append(results, [path |-> m.m1, index |-> idx, re |-> m.re]),
                            seenIndexes \cup {idx})

CollectResourcePathsOf(text) == ApplyFrom(text, 1, <<>>, {})

Collect ==
    /\ arg.fn = "collect"
    /\ out = NoCall
    /\ out' = [fn |-> "collectResourcePaths", results |-> CollectResourcePathsOf(arg)]
    /\ UNCHANGED <<arg, notCall>>

CollectInit ==
    /\ CacheState /\ RaceState /\ IndexState /\ MatState
    /\ arg \in CollectCalls
    /\ out = NoCall

CollectNext == Collect

SpecCollect == CollectInit /\ [][CollectNext]_vars

----------------------------------------------------------------------------
(* The race of a position query with the cache: every candidate is          *)
(* materialized by materializeCandidateWithCache, winner or not             *)

\* cacheKey of a candidate of the query: the file candidates of a query name
\* one file (a match of the line and the fallback at the cursor capture the
\* same path), the network candidates one URL
CandidateKey(type) ==
    IF type = "file" THEN <<FileKey>>
    ELSE IF type = "network" THEN <<UrlKey>>
    ELSE <<>>

\* imageCache.get on a map
AfterGet(m, k) ==
    IF ~MapHas(m, k) THEN m
    ELSE IF Expired(MapGet(m, k), now, maxAge) THEN MapDelete(m, k)
    ELSE MapSet(m, k, Touch(MapGet(m, k), now))

\* the imageCache.get calls of candidates.map(materializeCandidateWithCache)
RECURSIVE AfterGets(_, _)
AfterGets(m, types) ==
    IF types = <<>> THEN m
    ELSE LET key == CandidateKey(Head(types))
         IN  AfterGets(IF key = <<>> THEN m ELSE AfterGet(m, key[1]), Tail(types))

\* the candidates that a cache hit fulfils at once
HitCandidates(types) ==
    { i \in 1..Len(types) :
        CandidateKey(types[i]) # <<>> /\ CacheHit(CandidateKey(types[i])[1]) }

\* the reactions p.then(resolve) of the candidates already fulfilled, in the
\* order forEach attaches them
RECURSIVE ThenJobs(_, _, _)
ThenJobs(hits, i, n) ==
    IF i > n THEN <<>>
    ELSE (IF i \in hits THEN <<[kind |-> "then", cand |-> i]>> ELSE <<>>)
         \o ThenJobs(hits, i + 1, n)

RECURSIVE HitOrder(_, _, _)
HitOrder(hits, i, n) ==
    IF i > n THEN <<>>
    ELSE (IF i \in hits THEN <<i>> ELSE <<>>) \o HitOrder(hits, i + 1, n)

\* parseAndResolveResource up to the await of the race, with the synchronous
\* part of each materializeCandidateWithCache: the cache lookup
StartCachedQuery(mapped) ==
    /\ qpc \in {"idle", "done"}
    /\ jobs = <<>>
    /\ \A i \in 1..Len(mat) : mat[i] # "pending"
    /\ cands' = Candidates(mapped)
    /\ cache' = AfterGets(cache, cands')
    /\ LET hits == HitCandidates(cands')
       IN  /\ mat' = [i \in 1..Len(cands') |-> IF i \in hits THEN "ok" ELSE "pending"]
           /\ jobs' = ThenJobs(hits, 1, Len(cands'))
           /\ order' = HitOrder(hits, 1, Len(cands'))
    /\ outer' = Pending
    /\ rejectedCount' = 0
    /\ ret' = Void
    /\ IF Len(cands') = 0
       THEN qpc' = "done" /\ result' = NotFound
       ELSE qpc' = "racing" /\ result' = [type |-> "none"]
    /\ UNCHANGED <<maxSize, maxAge, now, indexVars, callVars, matVars>>

\* the materialization of candidate i ends; a successful one with a cache key
\* and a resourceInfo is stored in the cache (info is "undefined" when the
\* enrichment threw)
SettleAndCache(i, outcome, info) ==
    /\ i \in 1..Len(mat)
    /\ mat[i] = "pending"
    /\ outcome \in Outcomes(cands[i])
    /\ mat' = [mat EXCEPT ![i] = outcome]
    /\ order' = Append(order, i)
    /\ jobs' = Append(jobs, [kind |-> "then", cand |-> i])
    /\ LET key == CandidateKey(cands[i])
       IN  cache' = IF outcome = "ok" /\ key # <<>> /\ info # "undefined"
                    THEN CacheAfterSet(key[1],
                             [Unenriched([type |-> cands[i]], "none")
                                 EXCEPT !.resourceInfo = info])
                    ELSE cache
    /\ ret' = [op |-> "materialize", cand |-> i, outcome |-> outcome, info |-> info]
    /\ UNCHANGED <<qpc, cands, outer, rejectedCount, result,
                   maxSize, maxAge, now, indexVars, callVars, matVars>>

RaceCacheNext ==
    \/ \E mapped \in MappedLists : StartCachedQuery(mapped)
    \/ \E i \in 1..MaxMatches, outcome \in {"ok", "failed"},
          info \in {"undefined", "basic", "full"} : SettleAndCache(i, outcome, info)
    \/ ThenFulfilled
    \/ ThenRejected
    \/ CatchRejected
    \/ Return
    \/ Tick

SpecRaceCache == RaceInit /\ [][RaceCacheNext]_vars

----------------------------------------------------------------------------
(* The claims about the asset index *)

\* the locations recorded for a resource, and those of them in one source file
LocsOf(refs, r) == IF r \in DOMAIN refs THEN refs[r] ELSE <<>>

FromFile(locs, file) == SelectSeq(locs, LAMBDA loc : loc.file = file)

ScanInFlight == scanOp.pc \in {"assets", "texts", "read", "stat"}

\* C8: updateFileReferences(F, content) removes every location of F and then
\* adds only locations of F found in content; for every other source file G
\* the sequence of G's locations under every resource is the same before and
\* after the call, and a resource referenced only by other files keeps its entry
C8_IncrementalIsolation ==
    updOp.pc \in {"stat", "done"} =>
        LET F == updOp.file
            before == updOp.before
        IN  /\ \A r \in Resources : \A G \in TextFiles \ {F} :
                  FromFile(LocsOf(references, r), G) = FromFile(LocsOf(before, r), G)
            /\ \A r \in DOMAIN before :
                  FromFile(before[r], F) = <<>> => r \in DOMAIN references
            /\ updOp.pc = "stat" =>
                  \A r \in DOMAIN references : FromFile(references[r], F) = <<>>
            /\ updOp.pc = "done" =>
                  \A r \in DOMAIN references :
                      LET mine == FromFile(references[r], F)
                      IN  /\ \A i \in 1..Len(mine) :
                                /\ mine[i].index \in 1..Len(updOp.matches)
                                /\ updOp.matches[mine[i].index].path = r
                          /\ \A i, j \in 1..Len(mine) :
                                i # j => mine[i].index # mine[j].index

\* an update of A has removed A's location from a resource that B references
\* too and has added a location of A under another resource
C8_Witness ==
    /\ updOp.pc = "done"
    /\ \E r \in DOMAIN updOp.before :
          /\ FromFile(updOp.before[r], updOp.file) # <<>>
          /\ FromFile(updOp.before[r], updOp.file) # updOp.before[r]
          /\ r \in DOMAIN references
          /\ FromFile(references[r], updOp.file) = <<>>
    /\ \E r \in DOMAIN references :
          /\ r \notin DOMAIN updOp.before
          /\ FromFile(references[r], updOp.file) # <<>>

\* C9: no entry of the reverse map has an empty list of locations, and
\* getUnused() is exactly the assets with no recorded location
C9_UnusedAreTheUnreferenced ==
    /\ \A r \in DOMAIN references : references[r] # <<>>
    /\ GetUnused = { a \in assets : LocsOf(references, a) = <<>> }
    /\ \A a \in assets : LocsOf(references, a) # <<>> => a \notin GetUnused

\* the only file that referenced an asset has been updated to a content
\* without references, and the asset is reported as unused
C9_Witness ==
    /\ updOp.pc = "done"
    /\ updOp.matches = <<>>
    /\ \E a \in assets :
          /\ a \in DOMAIN updOp.before
          /\ FromFile(updOp.before[a], updOp.file) = updOp.before[a]
          /\ a \in GetUnused

\* C10: while scan is suspended, getReferences answers from the complete map
\* that existed before the scan; once scan has returned, from the complete map
\* the scan built; never from a partially built map
C10_ScanRebuildIsAtomic ==
    /\ ScanInFlight =>
          \A r \in Resources : GetReferences(r) = LocsOf(scanOp.before, r)
    /\ scanOp.pc = "done" =>
          \A r \in Resources : GetReferences(r) = LocsOf(scanOp.refMap, r)

\* scan is suspended with a partly built map that is neither empty nor the
\* map the readers see
C10_Witness ==
    /\ scanOp.pc = "stat"
    /\ scanOp.fi = 2
    /\ scanOp.refMap # EmptyMap
    /\ references # EmptyMap
    /\ scanOp.refMap # references
    /\ references = scanOp.before

\* C11: when a scan is started while an earlier scan is in flight, then after
\* both have finished the asset set and the reverse map are those computed by
\* the scan that was started later
C11_SupersededScanIsDiscarded ==
    (scanOp.pc = "done" /\ laterOp.pc = "done") =>
        /\ assets = laterOp.assets
        /\ references = laterOp.refMap

----------------------------------------------------------------------------
(* The claims about the mappers *)

\* the targets of a relative raw path in the order of priority of the
\* specification: relative to the declaring file, alias substitution, relative
\* to the workspace root, the extra source roots in declared order, the
\* leading slash
PriorityOrder(raw, aliases, setting) ==
    <<Join(DocDir, raw)>>
    \o AllAsIs(Tail(PathsToTest(raw, aliases)))
    \o <<Join(WorkspaceRoot, raw)>>
    \o InFolders(raw, Folders(setting))
    \o LeadingSlash(raw)

\* C12: the result of mapping a relative raw path is the first target, in the
\* order of priority of the specification, that exists; so the alias target
\* is returned when it and the target under the workspace root both exist
C12_MappersInPriorityOrder ==
    (out # NoCall /\ arg.raw.scheme = "" /\ ~arg.raw.abs) =>
        out.result = FirstExisting(PriorityOrder(arg.raw, arg.aliases, arg.setting), arg.fs)

\* C13: the result of mapping an absolute path is a file candidate for that
\* path when it exists and not_found otherwise
C13_AbsolutePathOnly ==
    (out # NoCall /\ arg.raw.scheme = "" /\ arg.raw.abs) =>
        out.result = IF AsIs(arg.raw) \in arg.fs THEN File(AsIs(arg.raw)) ELSE NotFound

\* C28: when the full scan records a reference from the declaring file to
\* the resource R for a raw string, the position query on that string in
\* that file resolves to the file R
C28_ScanResolvesAsTheQuery ==
    (out.fn = "resolveViaMappers" /\ ScanRecords(arg) # None) =>
        out.result = File(ScanRecords(arg)[1])

----------------------------------------------------------------------------
(* The claims about the alias resolver *)

\* configDir is the directory fileDir or a directory above it
IsAncestorDir(fileDir, configDir) ==
    fileDir = configDir \/ StartsWith(fileDir, configDir \o <<"/">>)

\* the directories of the loaded configurations that are the file's directory
\* or a directory above it
AncestorConfigDirs(call) ==
    { call.configFiles[i].configDir : i \in 1..Len(call.configFiles) }
    \cap { d \in Range(DirsInScanOrder) : IsAncestorDir(call.fileDir, d) }

\* C14: getAliasMapForFile returns the alias table of the loaded configuration
\* in the deepest directory that is the file's directory or above it, and the
\* empty table when there is none; a configuration in a directory that is not
\* above the file is never selected
C14_AliasNearestAncestor ==
    out.fn = "getAliasMapForFile" =>
        IF AncestorConfigDirs(arg) = {}
        THEN out.result = NoAliases
        ELSE LET deepest == CHOOSE d \in AncestorConfigDirs(arg) :
                                \A e \in AncestorConfigDirs(arg) : Len(e) <= Len(d)
             IN  out.result = ConfigFile(deepest).aliases

\* a configuration file that parses and whose paths, when present, map the
\* key to an array of strings
WellFormed(content) ==
    content \in {PathsAbsent, PathsOf(TargetsArray(<<>>)), PathsOf(TargetsArray(<<StringItem>>))}

\* C15: loadAliasMap over configuration files of which one is unparsable or
\* has paths of an unexpected shape does not throw, and every other
\* configuration file has its alias table loaded
C15_MalformedConfigSkipped ==
    (out.fn = "loadAliasMap"
        /\ Cardinality({ i \in 1..Len(arg.contents) : ~WellFormed(arg.contents[i]) }) = 1) =>
        /\ ~out.result.threw
        /\ \A i \in 1..Len(arg.contents) :
              WellFormed(arg.contents[i]) =>
                  out.result.tables[i] = LoadAliasesFromConfig(arg.contents[i]).aliases

----------------------------------------------------------------------------
(* The claims about the parse stage of a position query *)

Contains(match, character) == match.start <= character /\ character <= match.end

\* C16: a match of the line whose range [start, end] does not contain the
\* column of the cursor is not resolved and is not the query's result
C16_OnlyMatchesAtTheCursor ==
    out.fn = "parseAndResolveResource" =>
        \A i \in 1..Len(arg.matches) :
            ~Contains(arg.matches[i], arg.character) =>
                /\ i \notin out.resolved
                /\ ~(out.result.from = "match" /\ out.result.index = i)

\* C17: a position query whose cursor is inside a comment returns not_found
C17_NothingInsideComments ==
    (out.fn = "parseAndResolveResource"
        /\ arg.commentStart # None /\ arg.character >= arg.commentStart[1]) =>
        out.result.type = "not_found"

----------------------------------------------------------------------------
(* Claims about materialization *)

\* a call of materializeCandidate has returned its result
Materialized == mop # Idle /\ mop.pc = "done" /\ mop.ok /\ ~mop.cached

\* C18: for a candidate whose local file was produced, a failure of one of
\* the metadata, optimization-estimate and VCS collaborators leaves the
\* materialization successful and the result carries the field of every
\* enrichment that succeeded.
C18_EnrichmentFailuresAreIndependent ==
    Materialized =>
        /\ mop.returned.info \in {"basic", "full"} =>
                mop.result.resourceInfo = mop.returned.info
        /\ mop.returned.estimates = "estimates" =>
                mop.result.optimizationEstimates = "estimates"
        /\ mop.returned.git = "info" => mop.result.gitInfo = "info"

\* C19: every successful materialization, a cache hit included, refers to a
\* local file that is readable when the result is returned.
C19_ResultIsLocallyReadable ==
    (mop # Idle /\ mop.pc = "done" /\ mop.ok) => mop.result.uri \in disk

\* C20: the content-type probe and the body download each follow at most one
\* redirect (at most two requests), and a server that answers the redirected
\* request with another redirect makes the materialization fail.
C20_AtMostOneRedirectHop ==
    mop # Idle =>
        /\ Len(mop.probe) <= 2
        /\ Len(mop.body) <= 2
        /\ (/\ mop.pc = "done"
            /\ ~mop.cached
            /\ mop.candidate.type = "network"
            /\ mop.server[0].status = "302"
            /\ mop.server[mop.server[0].location].status = "302") => ~mop.ok

\* C21: a transport error of any request of a network materialization (the
\* initial or the redirected request, of the probe or of the download) makes
\* the materialization reject: the call never stays pending with an error
\* nobody handles, and it does not succeed past a request that failed.
C21_TransportErrorRejects ==
    mop # Idle =>
        /\ mop.pc # "unhandled"
        /\ (/\ mop.pc = "done"
            /\ mop.body # <<>>
            /\ mop.server[Last(mop.body)].status = "error") => ~mop.ok

----------------------------------------------------------------------------
(* Claims about collectResourcePaths *)

\* the matches of the text that lie outside comments
Uncommented(text) ==
    { i \in 1..Len(text.matches) : ~IsInComment(text, Idx(text.matches[i])) }

\* C22: collectResourcePaths reports at most one match per offset, and the
\* match reported for an offset that several expressions capture is the one
\* of the expression applied first.
C22_OneMatchPerOffset ==
    out.fn = "collectResourcePaths" =>
        /\ \A i, j \in 1..Len(out.results) :
              i # j => out.results[i].index # out.results[j].index
        /\ \A i \in Uncommented(arg) :
              \E r \in 1..Len(out.results) :
                  /\ out.results[r].index = Idx(arg.matches[i])
                  /\ GrammarRank(out.results[r].re) <= GrammarRank(arg.matches[i].re)

C22_Witness ==
    /\ out.fn = "collectResourcePaths"
    /\ Len(arg.matches) = 2
    /\ arg.matches[1].re = "URL_RE"
    /\ arg.matches[2].re = "GENERIC_QUOTED_RE"
    /\ Idx(arg.matches[1]) = Idx(arg.matches[2])
    /\ Len(out.results) = 1
    /\ out.results[1].re = "URL_RE"

\* C25: for a match of a binding expression (Vue binding, JSX literal) the
\* full scan records the path of the attribute's value (the second group) at
\* the offset of that path, not the attribute name.
C25_BindingRecordsTheValuePath ==
    out.fn = "collectResourcePaths" =>
        \A r \in 1..Len(out.results) :
            out.results[r].re \in BindingGrammars =>
                \E i \in 1..Len(arg.matches) :
                    /\ arg.matches[i].re = out.results[r].re
                    /\ out.results[r].path = arg.matches[i].m2
                    /\ out.results[r].index =
                           arg.matches[i].index + GroupOffset(arg.matches[i].re, 2)

----------------------------------------------------------------------------
(* Further claims about the race of a position query *)

C24_LoserPopulatesTheCache ==
    [][\A i \in 1..Len(mat) :
          (/\ mat[i] = "pending"
           /\ SettleAndCache(i, "ok", ret'.info)
           /\ ret'.op = "materialize" /\ ret'.cand = i /\ ret'.outcome = "ok"
           /\ ret'.info # "undefined"
           /\ cands[i] \in {"file", "network"}
           /\ outer.state = "resolved"
           /\ outer.cand # i) =>
              LET key == CandidateKey(cands[i])[1]
                  winner == CandidateKey(cands[outer.cand])
              IN  /\ MapHas(cache', key)
                  /\ MapGet(cache', key).resourceInfo = ret'.info
                  /\ result' = result
                  /\ (winner # <<>> /\ MapHas(cache, winner[1])) =>
                         /\ MapHas(cache', winner[1])
                         /\ MapGet(cache', winner[1]) = MapGet(cache, winner[1])]_vars

----------------------------------------------------------------------------
(* Further claims about the asset index *)

\* no call of updateFileReferences is in flight
UpdatesAtRest ==
    /\ updOp.pc \in {"idle", "done"}
    /\ laterOp.pc \in {"idle", "done"}

\* the matches of the content of the call for the file that started last, of
\* the calls of the round: the later call when it is for that file
LastStartedMatches(file) ==
    IF laterOp.pc = "done" /\ laterOp.file = file THEN Some(laterOp.matches)
    ELSE IF updOp.pc = "done" /\ updOp.file = file THEN Some(updOp.matches)
    ELSE None

\* C30: after any interleaving of updateFileReferences calls, two calls for
\* one file in flight at the same time included, every entry of the reverse
\* map holds each location at most once and holds no location that the
\* content of the last-started call for the location's file does not have
C30_NoLocationTwice ==
    UpdatesAtRest =>
        \A r \in DOMAIN references :
            /\ \A i, j \in 1..Len(references[r]) :
                  references[r][i] = references[r][j] => i = j
            /\ \A i \in 1..Len(references[r]) :
                  LET last == LastStartedMatches(references[r][i].file)
                  IN  last # None =>
                        \E k \in 1..Len(last[1]) :
                            /\ last[1][k].index = references[r][i].index
                            /\ last[1][k].path = r

\* the finished call of updateFileReferences is the second of two calls in
\* succession with the same arguments, and its fs.stat calls have answered
\* as those of the first (the filesystem has not changed)
SecondOfTwo ==
    /\ updOp.pc = "done"
    /\ "first" \in DOMAIN updOp
    /\ updOp.found = updOp.first

\* C29: updateFileReferences is idempotent: with the filesystem unchanged,
\* after the second of two calls in succession for the same file and content
\* the reverse map (its resources and the sequence of locations of each) is
\* what it was after the first call
C29_UpdateIsIdempotent == SecondOfTwo => references = updOp.before

\* the second call has found a resource that another file references too
C29_Witness ==
    /\ SecondOfTwo
    /\ \E r \in DOMAIN updOp.found :
          /\ r \in DOMAIN references
          /\ \E i \in 1..Len(references[r]) : references[r][i].file # updOp.file
          /\ \E i \in 1..Len(references[r]) : references[r][i].file = updOp.file

\* C26: each scan and each updateFileReferences fires the change notification
\* exactly once, when the reverse map holds the operation's result: nothing
\* is fired while the call is in flight, and the listener of the one
\* notification reads the map the call produced.
C26_NotifiedOnceAfterTheResult ==
    /\ scanOp.pc \in {"assets", "texts", "read", "stat"} => fired = <<>>
    /\ updOp.pc = "stat" => fired = <<>>
    /\ scanOp.pc = "done" =>
           fired = <<[by |-> "scan", references |-> scanOp.refMap]>>
    /\ updOp.pc = "done" =>
           fired = <<[by |-> "update",
                      references |-> Merge(RemoveReferencesFromFile(updOp.before, updOp.file),
                                           updOp.found)]>>

C26_Witness ==
    /\ updOp.pc = "done"
    /\ updOp.before # references
    /\ Len(fired) = 1
    /\ fired[1].references = references
    /\ DOMAIN references # {}

\* C27: while a scan is in flight a reader sees the asset set and the reverse
\* map replaced together: getUnused() answers what it answered before the
\* scan or what it answers once the scan has returned. (Between the
\* assignment of this.assets and the return of scan neither the asset set nor
\* the reverse map changes, so the answer in the last state before the return
\* is the answer at every await after that assignment.)
C27_UnusedIsPreOrPostScan ==
    [][(scanOp.pc \in {"texts", "read", "stat"} /\ scanOp'.pc = "done") =>
          \/ GetUnused = scanOp.unused
          \/ GetUnused = { a \in assets' : a \notin DOMAIN references' }]_vars

====
